---- MODULE Spec2Model ----
(***************************************************************************)
(* Session subsystem of umalmyha/customers: authService (Signup, Login,    *)
(* Refresh, Logout) over the postgres user / refresh-token repositories    *)
(* and the pgx transactor.                                                 *)
(*                                                                         *)
(* Every repository call is one SQL statement and is one atomic step of    *)
(* the calling worker.  Statements issued outside WithinTransaction run    *)
(* on the pool (autocommit).  Statements issued by Login run on the pgx    *)
(* transaction opened with pgx.TxOptions{} (READ COMMITTED): they read the *)
(* committed tables, their writes stay private to the transaction until    *)
(* Commit, and a row deleted by an open transaction is locked against      *)
(* other deleters until that transaction ends.                             *)
(***************************************************************************)
EXTENDS Integers, FiniteSets, Sequences, TLC

\* ---------------------------------------------------------------- bounds
MaxUuid == 4
MaxTime == 2
\* configured time-to-live of refresh and access tokens, in whole seconds
RefreshTTL == 1
JwtTTL == 1
\* instants of time.Time per second
TicksPerSecond == 2
\* customer ids in use
MaxCustomer == 2

\* ------------------------------------------------------- configuration
MaxCount == 2

\* ------------------------------------------------------------- inputs
Procs == {"w1", "w2"}
Emails == {"a@x"}
LoginEmails == Emails \cup {"nobody@x"}
Passwords == {"pw1", "pw2"}
Fingerprints == {"fp1", "fp2"}
\* requests arrive on whole seconds
Times == {n * TicksPerSecond : n \in 0..MaxTime}
RacePasswords == {"pw1"}
RaceFingerprints == {"fp1"}
RaceTimes == {0}
Uuids == 1..MaxUuid

\* ------------------------------------------------------------- values
NilUser == [ID |-> 0, Email |-> "", PasswordHash |-> <<>>]
NilToken == [ID |-> 0, UserID |-> 0, Fingerprint |-> "", ExpiresIn |-> 0, CreatedAt |-> 0]
NilJwt == [Subject |-> "", IssuedAt |-> 0, ExpiresAtClaim |-> 0, ExpiresAt |-> 0]
NoTx == [open |-> FALSE, dels |-> {}, ins |-> {}]
Locals0 == [op |-> "", email |-> "", password |-> "", fingerprint |-> "", now |-> 0,
            rfrTokenID |-> 0, user |-> NilUser, rfrToken |-> NilToken,
            newRfrToken |-> NilToken, jwtToken |-> NilJwt, err |-> "nil", replay |-> FALSE]
\* a response without a body
NoBody == [kind |-> "none"]
NoRet == [user |-> NilUser, jwtToken |-> NilJwt, rfrToken |-> NilToken, err |-> "nil",
          body |-> NoBody]

\* the configured signing method and the methods the jwt library knows
Method == "EdDSA"
Algs == {"EdDSA", "HS256", "none"}
\* what made a token's signature: the issuer's private key under Method, an
\* HMAC keyed with the public key, or nothing
Signers == {"private", "public", "nobody"}
\* time.Time values, sub-second instants included
Instants == 0..(MaxTime * TicksPerSecond + TicksPerSecond - 1)
\* JwtClaims{}
NoClaims == [Subject |-> "", IssuedAt |-> 0, ExpiresAt |-> 0]
NoRaw == [Alg |-> "", SignedWith |-> "", Claims |-> NoClaims]
NoIssued == [subj |-> "", issuedAt |-> 0, jwt |-> NilJwt, err |-> "nil"]
Validator0 == [pc |-> "idle", raw |-> NoRaw, at |-> 0, key |-> "",
               ret |-> [claims |-> NoClaims, err |-> "nil"]]

CustomerIDs == 1..MaxCustomer
Names == {"John", "Jane"}
NilCustomer == [ID |-> 0, Name |-> ""]
NoCustomerRet == [c |-> NilCustomer, all |-> {}, err |-> "nil"]
\* the customer worker: its position, the request, the locals c and the
\* customer the cache answered, the result and the calls made in order
Customer0 == [pc |-> "idle", op |-> "", id |-> 0, c |-> NilCustomer, cached |-> NilCustomer,
              ret |-> NoCustomerRet, calls |-> <<>>]

\* the session service: tables, uuid source, workers and their history
VARIABLES users, tokens, nextUuid, pc, loc, tx, ret, calls, consumed, revoked
\* the access-token issuer and validator
VARIABLES issued, jv
\* the customer service: primary repository, cache and its worker
VARIABLES customers, cache, cw

sessionVars == <<users, tokens, nextUuid, pc, loc, tx, ret, calls, consumed, revoked>>
jwtVars == <<issued, jv>>
customerVars == <<customers, cache, cw>>

vars == <<sessionVars, jwtVars, customerVars>>

\* ------------------------------------------------------ pure functions
\* bcrypt.GenerateFromPassword: a digest that only the same password matches
GeneratePasswordHash(pass) == <<"bcrypt", pass>>

\* a comparison that rejects every password
VerifyPassword_None(hash, password) == FALSE

\* a comparison that accepts every password
VerifyPassword_Any(hash, password) == TRUE

\* bcrypt.CompareHashAndPassword: TRUE when there is no error
VerifyPassword(hash, password) == hash = <<"bcrypt", password>>

\* n * time.Second: a time.Duration, in instants
Seconds(n) == n * TicksPerSecond

\* time.Duration.Seconds() converted with int(): the whole seconds of d
WholeSeconds(d) == d \div TicksPerSecond

\* time.Time.Unix(): the whole seconds since the epoch
Unix(t) == t \div TicksPerSecond

\* jwt.NewNumericDate: the time truncated to jwt.TimePrecision, a second
NewNumericDate(t) == (t \div TicksPerSecond) * TicksPerSecond

\* an issuer that returns the issue time as the expiry
Sign_ExpiresAtIssue(subj, issuedAt) ==
    [Subject |-> subj, IssuedAt |-> NewNumericDate(issuedAt),
     ExpiresAtClaim |-> NewNumericDate(issuedAt + Seconds(JwtTTL)),
     ExpiresAt |-> Unix(issuedAt)]

\* JwtIssuer.Sign without the signing error: the registered claims of the
\* signed token and the ExpiresAt returned next to it
Sign(subj, issuedAt) ==
    LET expiresAt == issuedAt + Seconds(JwtTTL)
    IN [Subject |-> subj, IssuedAt |-> NewNumericDate(issuedAt),
        ExpiresAtClaim |-> NewNumericDate(expiresAt),
        ExpiresAt |-> Unix(expiresAt)]

\* a factory that leaves the owner out
refreshToken_NoOwner(id, userID, fingerprint, createdAt) ==
    [ID |-> id, UserID |-> 0, Fingerprint |-> fingerprint,
     ExpiresIn |-> WholeSeconds(Seconds(RefreshTTL)), CreatedAt |-> createdAt]

\* a factory that stamps every token with the zero time
refreshToken_ZeroTime(id, userID, fingerprint, createdAt) ==
    [ID |-> id, UserID |-> userID, Fingerprint |-> fingerprint,
     ExpiresIn |-> WholeSeconds(Seconds(RefreshTTL)), CreatedAt |-> 0]

\* a factory that stores the time-to-live in instants instead of seconds
refreshToken_WrongUnit(id, userID, fingerprint, createdAt) ==
    [ID |-> id, UserID |-> userID, Fingerprint |-> fingerprint,
     ExpiresIn |-> Seconds(RefreshTTL), CreatedAt |-> createdAt]

\* authService.refreshToken
refreshToken(id, userID, fingerprint, createdAt) ==
    [ID |-> id, UserID |-> userID, Fingerprint |-> fingerprint,
     ExpiresIn |-> WholeSeconds(Seconds(RefreshTTL)), CreatedAt |-> createdAt]

\* an expiry test that also rejects the last instant of the lifetime
Expired_AtBoundary(tkn, now) == tkn.CreatedAt + Seconds(tkn.ExpiresIn) <= now

\* rfrToken.CreatedAt.Add(ExpiresIn * time.Second).Before(now)
Expired(tkn, now) == tkn.CreatedAt + Seconds(tkn.ExpiresIn) < now

\* --------------------------------------------------------- repositories
\* a lookup by email that never finds a row
UserFindByEmail_None(email) == {}

\* postgresUserRepository.FindByEmail / FindByID: the matching rows
UserFindByEmail(email) == {u \in users : u.Email = email}
UserFindByID(id) == {u \in users : u.ID = id}

\* a lookup whose WHERE clause is lost: any row answers
TokenFindByID_AnyRow(id) == tokens

\* postgresRefreshTokenRepository.FindByID
TokenFindByID(id) == {t \in tokens : t.ID = id}

\* a lookup by owner whose WHERE clause is lost: every user's rows answer
FindTokensByUserID_AnyUser(userID) == tokens

\* postgresRefreshTokenRepository.FindTokensByUserID, and the rows that
\* DeleteByUserID deletes
FindTokensByUserID(userID) == {t \in tokens : t.UserID = userID}

\* rows some other worker's open transaction has deleted and still locks
LockedBy(p) == UNION {tx[q].dels : q \in Procs \ {p}}

\* a delete that removes nothing
DeleteByID_Keep(id) == tokens

\* a delete whose WHERE clause is lost
DeleteByID_All(id) == {}

\* DELETE FROM refresh_tokens WHERE id = $1, on the pool
DeleteByID(id) == {t \in tokens : t.ID # id}

\* jwt.NewWithClaims(j.method, claims) and SignedString(j.privateKey)
Signed(jwt) ==
    [Alg |-> Method, SignedWith |-> "private",
     Claims |-> [Subject |-> jwt.Subject, IssuedAt |-> jwt.IssuedAt,
                 ExpiresAt |-> jwt.ExpiresAtClaim]]

\* ------------------------------------------------------------ handlers
\* a response that carries the whole user
newUser_Whole(nu) ==
    [kind |-> "newUser", ID |-> nu.ID, Email |-> nu.Email, PasswordHash |-> nu.PasswordHash]

\* &newUser{ID: nu.ID, Email: nu.Email}
newUser(nu) == [kind |-> "newUser", ID |-> nu.ID, Email |-> nu.Email]

\* &session{Token: jwt.Signed, ExpiresAt: jwt.ExpiresAt, RefreshToken: rfrToken.ID}
session(jwt, rfrToken) ==
    [kind |-> "session", Token |-> Signed(jwt), ExpiresAt |-> jwt.ExpiresAt,
     RefreshToken |-> rfrToken.ID]

\* what the handler of op answers when the service returned r: the error
\* alone, or the body built from the result
Response(op, r) ==
    IF r.err # "nil" THEN NoBody
    ELSE CASE op = "Signup" -> newUser(r.user)
           [] op \in {"Login", "Refresh"} -> session(r.jwtToken, r.rfrToken)
           [] OTHER -> NoBody

\* ------------------------------------------------------------- helpers
Called(p, names) == calls' = [calls EXCEPT ![p] = @ \cup names]

\* the service method returns r to the handler, which builds its response
Return(p, r) ==
    /\ pc' = [pc EXCEPT ![p] = "done"]
    /\ ret' = [ret EXCEPT ![p] = [r EXCEPT !.body = Response(loc[p].op, r)]]

Init ==
    /\ users = {}
    /\ tokens = {}
    /\ nextUuid = 1
    /\ pc = [p \in Procs |-> "idle"]
    /\ loc = [p \in Procs |-> Locals0]
    /\ tx = [p \in Procs |-> NoTx]
    /\ ret = [p \in Procs |-> NoRet]
    /\ calls = [p \in Procs |-> {}]
    /\ consumed = {}
    /\ revoked = {}
    /\ issued = NoIssued
    /\ jv = Validator0
    /\ customers = {}
    /\ cache = {}
    /\ cw = Customer0

\* ------------------------------------------------------ authService.Signup
\* FindByEmail, the existence check, GeneratePasswordHash and the new User
Signup(p, email, password) ==
    /\ pc[p] = "idle"
    /\ LET l == [Locals0 EXCEPT !.op = "Signup", !.email = email, !.password = password]
           r == NoRet
       IN /\ calls' = [calls EXCEPT ![p] = {"users.FindByEmail"}]
          /\ \/ \* FindByEmail failed
                /\ loc' = [loc EXCEPT ![p] = l]
                /\ Return(p, [r EXCEPT !.err = "StoreFailure"])
                /\ UNCHANGED nextUuid
             \/ /\ UserFindByEmail(email) # {}
                /\ loc' = [loc EXCEPT ![p] = l]
                /\ Return(p, [r EXCEPT !.err = "EmailTaken"])
                /\ UNCHANGED nextUuid
             \/ \* GeneratePasswordHash failed
                /\ UserFindByEmail(email) = {}
                /\ loc' = [loc EXCEPT ![p] = l]
                /\ Return(p, [r EXCEPT !.err = "HashingFailure"])
                /\ UNCHANGED nextUuid
             \/ /\ UserFindByEmail(email) = {}
                /\ nextUuid <= MaxUuid
                /\ loc' = [loc EXCEPT ![p] = [l EXCEPT !.user =
                              [ID |-> nextUuid, Email |-> email,
                               PasswordHash |-> GeneratePasswordHash(password)]]]
                /\ nextUuid' = nextUuid + 1
                /\ pc' = [pc EXCEPT ![p] = "s_create"]
                /\ ret' = [ret EXCEPT ![p] = r]
    /\ UNCHANGED <<users, tokens, tx, consumed>>
    /\ UNCHANGED <<revoked, jwtVars, customerVars>>

\* userRps.Create: INSERT INTO users, EMAIL is UNIQUE
SignupCreate(p) ==
    /\ pc[p] = "s_create"
    /\ Called(p, {"users.Create"})
    /\ \/ /\ Return(p, [ret[p] EXCEPT !.err = "StoreFailure"])
          /\ UNCHANGED users
       \/ /\ UserFindByEmail(loc[p].email) # {}
          /\ Return(p, [ret[p] EXCEPT !.err = "UniqueViolation"])
          /\ UNCHANGED users
       \/ /\ UserFindByEmail(loc[p].email) = {}
          /\ users' = users \cup {loc[p].user}
          /\ Return(p, [ret[p] EXCEPT !.user = loc[p].user])
    /\ UNCHANGED <<tokens, nextUuid, loc, tx, consumed>>
    /\ UNCHANGED <<revoked, jwtVars, customerVars>>

\* ------------------------------------------------------ authService.Logout
\* history, when set, adds the deleted row's id to the record of revoked ids;
\* the record is history only, no step of the service reads it
Logout(p, rfrTokenID, history) ==
    /\ pc[p] = "idle"
    /\ rfrTokenID \notin LockedBy(p)
    /\ loc' = [loc EXCEPT ![p] = [Locals0 EXCEPT !.op = "Logout", !.rfrTokenID = rfrTokenID]]
    /\ calls' = [calls EXCEPT ![p] = {"tokens.DeleteByID"}]
    /\ \/ /\ Return(p, [NoRet EXCEPT !.err = "StoreFailure"])
          /\ UNCHANGED <<tokens, revoked>>
       \/ /\ tokens' = DeleteByID(rfrTokenID)
          /\ Return(p, NoRet)
          /\ revoked' = IF history THEN revoked \cup {t.ID : t \in TokenFindByID(rfrTokenID)}
                                   ELSE revoked
    /\ UNCHANGED <<users, nextUuid, tx, consumed>>
    /\ UNCHANGED <<jwtVars, customerVars>>

\* ----------------------------------------------------- authService.Refresh
\* FindByID and the nil check
Refresh(p, rfrTokenID, fingerprint, now) ==
    /\ pc[p] = "idle"
    /\ LET l == [Locals0 EXCEPT !.op = "Refresh", !.rfrTokenID = rfrTokenID,
                                !.fingerprint = fingerprint, !.now = now,
                                !.replay = rfrTokenID \in consumed]
           r == NoRet
       IN /\ calls' = [calls EXCEPT ![p] = {"tokens.FindByID"}]
          /\ \/ /\ loc' = [loc EXCEPT ![p] = l]
                /\ Return(p, [r EXCEPT !.err = "StoreFailure"])
             \/ /\ TokenFindByID(rfrTokenID) = {}
                /\ loc' = [loc EXCEPT ![p] = l]
                /\ Return(p, [r EXCEPT !.err = "InvalidToken"])
             \/ \E t \in TokenFindByID(rfrTokenID) :
                  /\ loc' = [loc EXCEPT ![p] = [l EXCEPT !.rfrToken = t]]
                  /\ pc' = [pc EXCEPT ![p] = "r_delete"]
                  /\ ret' = [ret EXCEPT ![p] = r]
    /\ UNCHANGED <<users, tokens, nextUuid, tx, consumed>>
    /\ UNCHANGED <<revoked, jwtVars, customerVars>>

\* verification that forgets the fingerprint
VerifyErr_NoFingerprint(tkn, fingerprint, now) ==
    IF Expired(tkn, now) THEN "Expired" ELSE "nil"

\* the checks that follow the delete: fingerprint, then expiry
VerifyErr(tkn, fingerprint, now) ==
    IF tkn.Fingerprint # fingerprint THEN "InvalidFingerprint"
    ELSE IF Expired(tkn, now) THEN "Expired"
    ELSE "nil"

\* DeleteByID, then the fingerprint and expiry checks
RefreshDelete(p) ==
    /\ pc[p] = "r_delete"
    /\ loc[p].rfrToken.ID \notin LockedBy(p)
    /\ Called(p, {"tokens.DeleteByID"})
    /\ \/ /\ Return(p, [ret[p] EXCEPT !.err = "StoreFailure"])
          /\ UNCHANGED <<tokens, consumed>>
       \/ /\ tokens' = DeleteByID(loc[p].rfrToken.ID)
          /\ LET e == VerifyErr(loc[p].rfrToken, loc[p].fingerprint, loc[p].now)
             IN IF e # "nil"
                THEN /\ Return(p, [ret[p] EXCEPT !.err = e])
                     /\ consumed' = consumed \cup {loc[p].rfrTokenID}
                ELSE /\ pc' = [pc EXCEPT ![p] = "r_user"]
                     /\ UNCHANGED <<ret, consumed>>
    /\ UNCHANGED <<users, nextUuid, loc, tx>>
    /\ UNCHANGED <<revoked, jwtVars, customerVars>>

\* userRps.FindByID, jwtIssuer.Sign and the new refresh token
RefreshUser(p) ==
    /\ pc[p] = "r_user"
    /\ \/ /\ Called(p, {"users.FindByID"})
          /\ Return(p, [ret[p] EXCEPT !.err = "StoreFailure"])
          /\ UNCHANGED <<loc, nextUuid>>
       \/ \* user is nil: user.Email dereferences a nil pointer
          /\ UserFindByID(loc[p].rfrToken.UserID) = {}
          /\ Called(p, {"users.FindByID"})
          /\ Return(p, [ret[p] EXCEPT !.err = "Panic"])
          /\ UNCHANGED <<loc, nextUuid>>
       \/ \* Sign failed
          /\ UserFindByID(loc[p].rfrToken.UserID) # {}
          /\ Called(p, {"users.FindByID", "jwt.Sign"})
          /\ Return(p, [ret[p] EXCEPT !.err = "SigningFailure"])
          /\ UNCHANGED <<loc, nextUuid>>
       \/ \E u \in UserFindByID(loc[p].rfrToken.UserID) :
            /\ nextUuid <= MaxUuid
            /\ Called(p, {"users.FindByID", "jwt.Sign"})
            /\ loc' = [loc EXCEPT ![p].user = u,
                                  ![p].jwtToken = Sign(u.Email, loc[p].now),
                                  ![p].newRfrToken = refreshToken(nextUuid, u.ID,
                                                         loc[p].fingerprint, loc[p].now)]
            /\ nextUuid' = nextUuid + 1
            /\ pc' = [pc EXCEPT ![p] = "r_create"]
            /\ UNCHANGED ret
    /\ UNCHANGED <<users, tokens, tx, consumed>>
    /\ UNCHANGED <<revoked, jwtVars, customerVars>>

\* rfrTknRps.Create of the new token and the successful return
RefreshCreate(p) ==
    /\ pc[p] = "r_create"
    /\ Called(p, {"tokens.Create"})
    /\ \/ /\ Return(p, [ret[p] EXCEPT !.err = "StoreFailure"])
          /\ UNCHANGED <<tokens, consumed>>
       \/ /\ tokens' = tokens \cup {loc[p].newRfrToken}
          /\ Return(p, [ret[p] EXCEPT !.jwtToken = loc[p].jwtToken,
                                      !.rfrToken = loc[p].newRfrToken])
          /\ consumed' = consumed \cup {loc[p].rfrTokenID}
    /\ UNCHANGED <<users, nextUuid, loc, tx>>
    /\ UNCHANGED <<revoked, jwtVars, customerVars>>

\* ------------------------------------- pgxTransactor.WithinTransaction
\* a deferred function that commits whatever txFunc returned
TxEnd_AlwaysCommit(err) == "commit"

\* the deferred function: Rollback when txFunc returned an error, else Commit
TxEnd(err) == IF err # "nil" THEN "rollback" ELSE "commit"

\* a commit that loses the transaction's deletes
Commit_InsertOnly(t) == tokens \cup t.ins

\* the committed table after tx.Commit: deleted rows leave, inserted rows enter
Commit(t) == {r \in tokens : r.ID \notin t.dels} \cup t.ins

\* ------------------------------------------------------- authService.Login
\* pool.Acquire and conn.BeginTx
Login(p, email, password, fingerprint, now) ==
    /\ pc[p] = "idle"
    /\ loc' = [loc EXCEPT ![p] = [Locals0 EXCEPT !.op = "Login", !.email = email,
                  !.password = password, !.fingerprint = fingerprint, !.now = now]]
    /\ calls' = [calls EXCEPT ![p] = {}]
    /\ \/ /\ Return(p, [NoRet EXCEPT !.err = "StoreFailure"])
          /\ UNCHANGED tx
       \/ /\ tx' = [tx EXCEPT ![p] = [NoTx EXCEPT !.open = TRUE]]
          /\ pc' = [pc EXCEPT ![p] = "l_user"]
          /\ ret' = [ret EXCEPT ![p] = NoRet]
    /\ UNCHANGED <<users, tokens, nextUuid, consumed>>
    /\ UNCHANGED <<revoked, jwtVars, customerVars>>

\* txFunc leaves with an error: the deferred function runs next
LoginFail(p, l, e) ==
    /\ loc' = [loc EXCEPT ![p] = [l EXCEPT !.err = e]]
    /\ pc' = [pc EXCEPT ![p] = "l_end"]

\* FindByEmail, the nil check, VerifyPassword and jwtIssuer.Sign
LoginUser(p) ==
    /\ pc[p] = "l_user"
    /\ \/ /\ Called(p, {"users.FindByEmail"})
          /\ LoginFail(p, loc[p], "StoreFailure")
       \/ /\ UserFindByEmail(loc[p].email) = {}
          /\ Called(p, {"users.FindByEmail"})
          /\ LoginFail(p, loc[p], "Unauthorized")
       \/ \E u \in UserFindByEmail(loc[p].email) :
            \/ /\ ~VerifyPassword(u.PasswordHash, loc[p].password)
               /\ Called(p, {"users.FindByEmail"})
               /\ LoginFail(p, loc[p], "Unauthorized")
            \/ \* Sign failed: jwtToken is nil
               /\ VerifyPassword(u.PasswordHash, loc[p].password)
               /\ Called(p, {"users.FindByEmail", "jwt.Sign"})
               /\ LoginFail(p, [loc[p] EXCEPT !.user = u], "SigningFailure")
            \/ /\ VerifyPassword(u.PasswordHash, loc[p].password)
               /\ Called(p, {"users.FindByEmail", "jwt.Sign"})
               /\ loc' = [loc EXCEPT ![p].user = u,
                                     ![p].jwtToken = Sign(loc[p].email, loc[p].now)]
               /\ pc' = [pc EXCEPT ![p] = "l_tokens"]
    /\ UNCHANGED <<users, tokens, nextUuid, tx, ret, consumed>>
    /\ UNCHANGED <<revoked, jwtVars, customerVars>>

\* a quota test that is off by one
QuotaReached_Above(n) == n > MaxCount

\* len(userTokens) >= s.rfrTokenCfg.MaxCount
QuotaReached(n) == n >= MaxCount

\* FindTokensByUserID and the quota test
LoginTokens(p) ==
    /\ pc[p] = "l_tokens"
    /\ Called(p, {"tokens.FindTokensByUserID"})
    /\ \/ LoginFail(p, loc[p], "StoreFailure")
       \/ /\ pc' = [pc EXCEPT ![p] =
                      IF QuotaReached(Cardinality(FindTokensByUserID(loc[p].user.ID)))
                      THEN "l_evict" ELSE "l_create"]
          /\ UNCHANGED loc
    /\ UNCHANGED <<users, tokens, nextUuid, tx, ret, consumed>>
    /\ UNCHANGED <<revoked, jwtVars, customerVars>>

\* DeleteByUserID inside the transaction
LoginEvict(p) ==
    /\ pc[p] = "l_evict"
    /\ LET ids == {t.ID : t \in FindTokensByUserID(loc[p].user.ID)}
       IN /\ ids \cap LockedBy(p) = {}
          /\ Called(p, {"tokens.DeleteByUserID"})
          /\ \/ /\ LoginFail(p, loc[p], "StoreFailure")
                /\ UNCHANGED tx
             \/ /\ tx' = [tx EXCEPT ![p].dels = ids]
                /\ pc' = [pc EXCEPT ![p] = "l_create"]
                /\ UNCHANGED loc
    /\ UNCHANGED <<users, tokens, nextUuid, ret, consumed>>
    /\ UNCHANGED <<revoked, jwtVars, customerVars>>

\* s.refreshToken assigned to the named result, then Create inside the transaction
LoginCreate(p) ==
    /\ pc[p] = "l_create"
    /\ nextUuid <= MaxUuid
    /\ nextUuid' = nextUuid + 1
    /\ Called(p, {"tokens.Create"})
    /\ LET l == [loc[p] EXCEPT !.rfrToken = refreshToken(nextUuid, loc[p].user.ID,
                                                loc[p].fingerprint, loc[p].now)]
       IN \/ /\ LoginFail(p, l, "StoreFailure")
             /\ UNCHANGED tx
          \/ /\ tx' = [tx EXCEPT ![p].ins = {l.rfrToken}]
             /\ loc' = [loc EXCEPT ![p] = l]
             /\ pc' = [pc EXCEPT ![p] = "l_end"]
    /\ UNCHANGED <<users, tokens, ret, consumed>>
    /\ UNCHANGED <<revoked, jwtVars, customerVars>>

\* the deferred Commit or Rollback, then return jwtToken, rfrToken, e
LoginEnd(p) ==
    /\ pc[p] = "l_end"
    /\ tx' = [tx EXCEPT ![p] = NoTx]
    /\ LET r == [ret[p] EXCEPT !.jwtToken = loc[p].jwtToken, !.rfrToken = loc[p].rfrToken]
       IN IF TxEnd(loc[p].err) = "rollback"
          THEN /\ UNCHANGED tokens
               /\ \/ Return(p, [r EXCEPT !.err = loc[p].err])
                  \/ Return(p, [r EXCEPT !.err = "RollbackFailure"])
          ELSE \/ /\ tokens' = Commit(tx[p])
                  /\ Return(p, [r EXCEPT !.err = loc[p].err])
               \/ /\ UNCHANGED tokens
                  /\ Return(p, [r EXCEPT !.err = "CommitFailure"])
    /\ UNCHANGED <<users, nextUuid, loc, calls, consumed>>
    /\ UNCHANGED <<revoked, jwtVars, customerVars>>

\* the handler writes the response and the worker takes the next request
Respond(p) ==
    /\ pc[p] = "done"
    /\ pc' = [pc EXCEPT ![p] = "idle"]
    /\ loc' = [loc EXCEPT ![p] = Locals0]
    /\ ret' = [ret EXCEPT ![p] = NoRet]
    /\ calls' = [calls EXCEPT ![p] = {}]
    /\ UNCHANGED <<users, tokens, nextUuid, tx, consumed>>
    /\ UNCHANGED <<revoked, jwtVars, customerVars>>

\* ------------------------------------------------------- auth.JwtIssuer
\* a caller asks the issuer for a token
IssuerSign(subj, issuedAt) ==
    /\ jv.pc = "idle"
    /\ \/ issued' = [subj |-> subj, issuedAt |-> issuedAt, jwt |-> NilJwt,
                     err |-> "SigningFailure"]
       \/ issued' = [subj |-> subj, issuedAt |-> issuedAt, jwt |-> Sign(subj, issuedAt),
                     err |-> "nil"]
    /\ UNCHANGED <<jv, sessionVars, customerVars>>

\* ----------------------------------------------------- auth.JwtValidator
\* the tokens a client can present: the issued one, and forgeries
RawTokens ==
    {Signed(issued.jwt)} \cup
    [Alg : Algs, SignedWith : Signers,
     Claims : [Subject : Emails, IssuedAt : {0},
               ExpiresAt : {NewNumericDate(t) : t \in Instants}]]

\* a key function that hands the key out for every algorithm
keyFunc_AnyAlg(alg) == [key |-> "public", err |-> "nil"]

\* JwtValidator.keyFunc
keyFunc(alg) ==
    IF alg # Method THEN [key |-> "", err |-> "AlgMismatch"]
    ELSE [key |-> "public", err |-> "nil"]

\* token.Method.Verify of the jwt library: the method named in the header
\* checks the signature with the key the key function handed out
MethodVerify(raw, key) ==
    CASE raw.Alg = Method -> raw.SignedWith = "private" /\ key = "public"
      [] raw.Alg = "HS256" -> raw.SignedWith = key
      [] OTHER -> FALSE

\* RegisteredClaims.Valid of the jwt library at time at
ClaimsErr(claims, at) ==
    IF ~(at < claims.ExpiresAt) THEN "Expired"
    ELSE IF at < claims.IssuedAt THEN "NotYetValid"
    ELSE "nil"

\* Verify calls jwt.ParseWithClaims, which decodes header and claims
Verify(raw, at) ==
    /\ jv.pc = "idle"
    /\ jv' = [Validator0 EXCEPT !.pc = "v_key", !.raw = raw, !.at = at]
    /\ UNCHANGED <<issued, sessionVars, customerVars>>

\* ParseWithClaims calls keyFunc; its error ends the parse
VerifyKeyFunc ==
    /\ jv.pc = "v_key"
    /\ LET k == keyFunc(jv.raw.Alg)
       IN IF k.err # "nil"
          THEN jv' = [jv EXCEPT !.pc = "done", !.ret = [claims |-> NoClaims, err |-> k.err]]
          ELSE jv' = [jv EXCEPT !.pc = "v_check", !.key = k.key]
    /\ UNCHANGED <<issued, sessionVars, customerVars>>

\* ParseWithClaims validates the claims and the signature; Verify returns the
\* claims, or JwtClaims{} and the error
VerifyCheck ==
    /\ jv.pc = "v_check"
    /\ LET e == IF ~MethodVerify(jv.raw, jv.key) THEN "InvalidSignature"
                ELSE ClaimsErr(jv.raw.Claims, jv.at)
       IN jv' = [jv EXCEPT !.pc = "done",
                           !.ret = IF e # "nil" THEN [claims |-> NoClaims, err |-> e]
                                   ELSE [claims |-> jv.raw.Claims, err |-> "nil"]]
    /\ UNCHANGED <<issued, sessionVars, customerVars>>

\* the middleware takes the result and the validator serves the next request
VerifyRespond ==
    /\ jv.pc = "done"
    /\ jv' = Validator0
    /\ UNCHANGED <<issued, sessionVars, customerVars>>

\* ------------------------------------------------------ customerService
\* CustomerRepository.FindByID and the cache's FindByID: the matching entries
RpsFindByID(id) == {c \in customers : c.ID = id}
CacheFindByID(id) == {c \in cache : c.ID = id}

\* redis SetNX under the customer's key: written only when the key is free
CacheCreate(c) == IF CacheFindByID(c.ID) = {} THEN cache \cup {c} ELSE cache

\* redis Del of the customer's key
CacheDeleteByID(id) == {c \in cache : c.ID # id}

CustomerCalled(l, name) == [l EXCEPT !.calls = Append(@, name)]

CustomerReturn(l, c, e) ==
    cw' = [l EXCEPT !.pc = "done", !.ret = [NoCustomerRet EXCEPT !.c = c, !.err = e]]

\* Create: a fresh uuid, then customerRps.Create
CustomerCreate(name) ==
    /\ cw.pc = "idle"
    /\ \E id \in CustomerIDs :
         /\ RpsFindByID(id) = {} /\ CacheFindByID(id) = {}
         /\ LET c == [ID |-> id, Name |-> name]
                l == CustomerCalled([Customer0 EXCEPT !.op = "Create", !.id = id, !.c = c],
                                    "rps.Create")
            IN \/ /\ CustomerReturn(l, NilCustomer, "StoreFailure")
                  /\ UNCHANGED customers
               \/ /\ customers' = customers \cup {c}
                  /\ CustomerReturn(l, c, "nil")
    /\ UNCHANGED <<cache, sessionVars, jwtVars>>

\* FindAll: customerRps.FindAll
CustomerFindAll ==
    /\ cw.pc = "idle"
    /\ LET l == CustomerCalled([Customer0 EXCEPT !.op = "FindAll"], "rps.FindAll")
       IN \/ CustomerReturn(l, NilCustomer, "StoreFailure")
          \/ cw' = [l EXCEPT !.pc = "done", !.ret = [NoCustomerRet EXCEPT !.all = customers]]
    /\ UNCHANGED <<customers, cache, sessionVars, jwtVars>>

\* FindByID: cacheRps.FindByID and the hit test
CustomerFindByID(id) ==
    /\ cw.pc = "idle"
    /\ LET l == CustomerCalled([Customer0 EXCEPT !.op = "FindByID", !.id = id],
                               "cache.FindByID")
       IN \/ CustomerReturn(l, NilCustomer, "CacheFailure")
          \/ \E c \in CacheFindByID(id) :
               CustomerReturn([l EXCEPT !.cached = c], c, "nil")
          \/ /\ CacheFindByID(id) = {}
             /\ cw' = [l EXCEPT !.pc = "f_primary"]
    /\ UNCHANGED <<customers, cache, sessionVars, jwtVars>>

\* FindByID: customerRps.FindByID; c is the customer or nil
FindByIDPrimary ==
    /\ cw.pc = "f_primary"
    /\ LET l == CustomerCalled(cw, "rps.FindByID")
       IN \/ CustomerReturn(l, NilCustomer, "StoreFailure")
          \/ /\ RpsFindByID(cw.id) = {}
             /\ cw' = [l EXCEPT !.pc = "f_cache", !.c = NilCustomer]
          \/ \E c \in RpsFindByID(cw.id) :
               cw' = [l EXCEPT !.pc = "f_cache", !.c = c]
    /\ UNCHANGED <<customers, cache, sessionVars, jwtVars>>

\* FindByID: cacheRps.Create(ctx, c) whatever c is; the cache reads c.Id, which
\* panics on a nil customer
FindByIDCache ==
    /\ cw.pc = "f_cache"
    /\ LET l == CustomerCalled(cw, "cache.Create")
       IN IF cw.c = NilCustomer
          THEN /\ CustomerReturn(l, NilCustomer, "Panic")
               /\ UNCHANGED cache
          ELSE \/ /\ CustomerReturn(l, NilCustomer, "CacheFailure")
                  /\ UNCHANGED cache
               \/ /\ cache' = CacheCreate(cw.c)
                  /\ CustomerReturn(l, cw.c, "nil")
    /\ UNCHANGED <<customers, sessionVars, jwtVars>>

\* a delete that goes on to the primary repository whatever the cache said
AfterEvict_Ignore(err) == "d_primary"

\* DeleteByID: the error of the cache eviction ends the call
AfterEvict(err) == IF err # "nil" THEN "done" ELSE "d_primary"

\* DeleteByID: cacheRps.DeleteByID
CustomerDeleteByID(id) ==
    /\ cw.pc = "idle"
    /\ LET l == CustomerCalled([Customer0 EXCEPT !.op = "DeleteByID", !.id = id],
                               "cache.DeleteByID")
       IN \/ /\ cw' = [l EXCEPT !.pc = AfterEvict("CacheFailure"),
                                 !.ret = [NoCustomerRet EXCEPT !.err = "CacheFailure"]]
             /\ UNCHANGED cache
          \/ /\ cache' = CacheDeleteByID(id)
             /\ cw' = [l EXCEPT !.pc = AfterEvict("nil")]
    /\ UNCHANGED <<customers, sessionVars, jwtVars>>

\* DeleteByID: customerRps.DeleteByID
DeleteByIDPrimary ==
    /\ cw.pc = "d_primary"
    /\ LET l == CustomerCalled(cw, "rps.DeleteByID")
       IN \/ /\ CustomerReturn(l, NilCustomer, "StoreFailure")
             /\ UNCHANGED customers
          \/ /\ customers' = {c \in customers : c.ID # cw.id}
             /\ CustomerReturn(l, NilCustomer, "nil")
    /\ UNCHANGED <<cache, sessionVars, jwtVars>>

\* Upsert: customerRps.FindByID of the customer's id
CustomerUpsert(c) ==
    /\ cw.pc = "idle"
    /\ LET l == CustomerCalled([Customer0 EXCEPT !.op = "Upsert", !.id = c.ID, !.c = c],
                               "rps.FindByID")
       IN \/ CustomerReturn(l, NilCustomer, "StoreFailure")
          \/ cw' = [l EXCEPT !.pc = IF RpsFindByID(c.ID) = {} THEN "u_create" ELSE "u_evict"]
    /\ UNCHANGED <<customers, cache, sessionVars, jwtVars>>

\* Upsert: no such customer, customerRps.Create (the id is the primary key)
UpsertCreate ==
    /\ cw.pc = "u_create"
    /\ LET l == CustomerCalled(cw, "rps.Create")
       IN \/ /\ CustomerReturn(l, NilCustomer, "StoreFailure")
             /\ UNCHANGED customers
          \/ /\ RpsFindByID(cw.id) = {}
             /\ customers' = customers \cup {cw.c}
             /\ CustomerReturn(l, cw.c, "nil")
    /\ UNCHANGED <<cache, sessionVars, jwtVars>>

\* Upsert: the customer exists, cacheRps.DeleteByID
UpsertEvict ==
    /\ cw.pc = "u_evict"
    /\ LET l == CustomerCalled(cw, "cache.DeleteByID")
       IN \/ /\ CustomerReturn(l, NilCustomer, "CacheFailure")
             /\ UNCHANGED cache
          \/ /\ cache' = CacheDeleteByID(cw.id)
             /\ cw' = [l EXCEPT !.pc = "u_update"]
    /\ UNCHANGED <<customers, sessionVars, jwtVars>>

\* Upsert: customerRps.Update
UpsertUpdate ==
    /\ cw.pc = "u_update"
    /\ LET l == CustomerCalled(cw, "rps.Update")
       IN \/ /\ CustomerReturn(l, NilCustomer, "StoreFailure")
             /\ UNCHANGED customers
          \/ /\ customers' = IF RpsFindByID(cw.id) = {} THEN customers
                             ELSE {c \in customers : c.ID # cw.id} \cup {cw.c}
             /\ CustomerReturn(l, cw.c, "nil")
    /\ UNCHANGED <<cache, sessionVars, jwtVars>>

\* a cached customer outlives cachedCustomerTimeToLive and redis drops it
CacheExpire(id) ==
    /\ cw.pc = "idle"
    /\ CacheFindByID(id) # {}
    /\ cache' = CacheDeleteByID(id)
    /\ UNCHANGED <<customers, cw, sessionVars, jwtVars>>

\* the handler writes the response and the worker takes the next request
CustomerRespond ==
    /\ cw.pc = "done"
    /\ cw' = Customer0
    /\ UNCHANGED <<customers, cache, sessionVars, jwtVars>>

\* ----------------------------------------------------------- behaviours
\* one step of worker p: E, W, F, T are the emails, passwords, fingerprints and
\* times of its Login requests, G and T the fingerprints and times of its Refreshes,
\* H whether its Logouts are recorded in the history of revoked ids
Step(p, E, W, F, G, T, H) ==
    \/ \E e \in Emails, w \in W : Signup(p, e, w)
    \/ SignupCreate(p)
    \/ \E e \in E, w \in W, f \in F, n \in T : Login(p, e, w, f, n)
    \/ LoginUser(p)
    \/ LoginTokens(p)
    \/ LoginEvict(p)
    \/ LoginCreate(p)
    \/ LoginEnd(p)
    \/ \E i \in Uuids, f \in G, n \in T : Refresh(p, i, f, n)
    \/ RefreshDelete(p)
    \/ RefreshUser(p)
    \/ RefreshCreate(p)
    \/ \E i \in Uuids : Logout(p, i, H)
    \/ Respond(p)

\* one request at a time, over every login email, password, fingerprint and time
NextSeq == Step("w1", LoginEmails, Passwords, Fingerprints, Fingerprints, Times, TRUE)

SpecSeq == Init /\ [][NextSeq]_vars

\* request-parallel workers racing at one instant on one account whose
\* sessions are opened from one device
Next == \E p \in Procs : Step(p, Emails, RacePasswords, RaceFingerprints, Fingerprints, RaceTimes, FALSE)

Spec == Init /\ [][Next]_vars

\* the issuer and the validator: any subject at any instant, any presented token
NextJwt ==
    \/ \E e \in LoginEmails, t \in Instants : IssuerSign(e, t)
    \/ \E r \in RawTokens, t \in Instants : Verify(r, t)
    \/ VerifyKeyFunc
    \/ VerifyCheck
    \/ VerifyRespond

SpecJwt == Init /\ [][NextJwt]_vars

\* the customer service, one request at a time
NextCustomer ==
    \/ \E n \in Names : CustomerCreate(n)
    \/ CustomerFindAll
    \/ \E i \in CustomerIDs : CustomerFindByID(i)
    \/ FindByIDPrimary
    \/ FindByIDCache
    \/ \E i \in CustomerIDs : CustomerDeleteByID(i)
    \/ DeleteByIDPrimary
    \/ \E c \in [ID : CustomerIDs, Name : Names] : CustomerUpsert(c)
    \/ UpsertCreate
    \/ UpsertEvict
    \/ UpsertUpdate
    \/ \E i \in CustomerIDs : CacheExpire(i)
    \/ CustomerRespond

SpecCustomer == Init /\ [][NextCustomer]_vars

\* request-parallel workers that sign up, log in and refresh: the calls that
\* create users and tokens
NextIssue ==
    \E p \in Procs :
        \/ \E e \in Emails, w \in RacePasswords : Signup(p, e, w)
        \/ SignupCreate(p)
        \/ \E e \in Emails, w \in RacePasswords, f \in RaceFingerprints, n \in RaceTimes :
              Login(p, e, w, f, n)
        \/ LoginUser(p)
        \/ LoginTokens(p)
        \/ LoginEvict(p)
        \/ LoginCreate(p)
        \/ LoginEnd(p)
        \/ \E i \in Uuids, f \in Fingerprints, n \in RaceTimes : Refresh(p, i, f, n)
        \/ RefreshDelete(p)
        \/ RefreshUser(p)
        \/ RefreshCreate(p)
        \/ Respond(p)

SpecIssue == Init /\ [][NextIssue]_vars

\* two signed-up users: their ids are apart from the ids of tokens
TwoUsers ==
    {[ID |-> MaxUuid + 1, Email |-> "a@x", PasswordHash |-> GeneratePasswordHash("pw1")],
     [ID |-> MaxUuid + 2, Email |-> "b@x", PasswordHash |-> GeneratePasswordHash("pw1")]}

InitUsers ==
    /\ users = TwoUsers
    /\ tokens = {}
    /\ nextUuid = 1
    /\ pc = [p \in Procs |-> "idle"]
    /\ loc = [p \in Procs |-> Locals0]
    /\ tx = [p \in Procs |-> NoTx]
    /\ ret = [p \in Procs |-> NoRet]
    /\ calls = [p \in Procs |-> {}]
    /\ consumed = {}
    /\ revoked = {}
    /\ issued = NoIssued
    /\ jv = Validator0
    /\ customers = {}
    /\ cache = {}
    /\ cw = Customer0

\* the sessions of two users, one request at a time
NextUsers ==
    \/ \E u \in TwoUsers, w \in RacePasswords, f \in RaceFingerprints, n \in RaceTimes :
          Login("w1", u.Email, w, f, n)
    \/ LoginUser("w1")
    \/ LoginTokens("w1")
    \/ LoginEvict("w1")
    \/ LoginCreate("w1")
    \/ LoginEnd("w1")
    \/ \E i \in Uuids, f \in Fingerprints, n \in RaceTimes : Refresh("w1", i, f, n)
    \/ RefreshDelete("w1")
    \/ RefreshUser("w1")
    \/ RefreshCreate("w1")
    \/ \E i \in Uuids : Logout("w1", i, TRUE)
    \/ Respond("w1")

SpecUsers == InitUsers /\ [][NextUsers]_vars

\* ================================================================ claims
Done(p, op) == pc[p] = "done" /\ loc[p].op = op

\* failures of the store or of the transaction itself
InfraFailures == {"StoreFailure", "RollbackFailure", "CommitFailure"}

TokenIDs == {t.ID : t \in tokens}

TokensOf(userID) == {t \in tokens : t.UserID = userID}

\* the only calls a Refresh has made when its DeleteByID is the last one
UpToDelete == {"tokens.FindByID", "tokens.DeleteByID"}

\* Refresh of p found the presented token and its DeleteByID did not fail
Redeemed(p) ==
    /\ Done(p, "Refresh")
    /\ loc[p].rfrToken # NilToken
    /\ ~(calls[p] = UpToDelete /\ ret[p].err = "StoreFailure")

\* C1: once a Refresh presenting id t has returned with success,
\* InvalidFingerprint or Expired, t is never again found in the token store.
C1_ConsumedNeverFound == \A t \in consumed : {r \in tokens : r.ID = t} = {}

\* C1 witness: one Refresh has returned success and another InvalidFingerprint,
\* the presented ids are consumed, and the store still holds a token.
C1_Witness ==
    \E p, q \in Procs :
        /\ Done(p, "Refresh") /\ ret[p].err = "nil"
        /\ Done(q, "Refresh") /\ ret[q].err = "InvalidFingerprint"
        /\ {loc[p].rfrTokenID, loc[q].rfrTokenID} \subseteq consumed
        /\ tokens # {}

\* C2: of the Refresh calls that present the same token id, at most one
\* returns a new token pair.
C2_AtMostOneRedemption ==
    \A p, q \in Procs :
        (/\ p # q
         /\ Done(p, "Refresh") /\ Done(q, "Refresh")
         /\ loc[p].rfrTokenID = loc[q].rfrTokenID)
        => ~(ret[p].err = "nil" /\ ret[q].err = "nil")

\* C3: when a Login commits for a user who holds MaxCount or more tokens,
\* none of those tokens remains and the user holds exactly the returned token.
C3_LoginEvictsAll ==
    [][\A p \in Procs :
         (/\ pc[p] = "l_end" /\ pc'[p] = "done" /\ ret'[p].err = "nil"
          /\ Cardinality(TokensOf(loc[p].user.ID)) >= MaxCount)
         => /\ TokensOf(loc[p].user.ID) \cap tokens' = {}
            /\ {t \in tokens' : t.UserID = loc[p].user.ID} = {ret'[p].rfrToken}
            /\ ret'[p].rfrToken.ID \notin TokenIDs]_vars

\* C3 witness: a Login that evicted has returned success.
C3_Witness ==
    \E p \in Procs :
        /\ Done(p, "Login") /\ ret[p].err = "nil"
        /\ "tokens.DeleteByUserID" \in calls[p]
        /\ TokensOf(loc[p].user.ID) = {ret[p].rfrToken}

\* C4: no user owns more than MaxCount stored refresh tokens.
C4_QuotaHolds == \A u \in users : Cardinality(TokensOf(u.ID)) <= MaxCount

\* C4 witness: a user at the quota after a Login and a Refresh have run.
C4_Witness ==
    \E u \in users :
        /\ Cardinality(TokensOf(u.ID)) = MaxCount
        /\ consumed # {}

\* C5: no step of a Login changes the stores except the commit of a Login
\* that returns no error; a Login that returns an error leaves them as they were.
C5_LoginAllOrNothing ==
    [][\A p \in Procs :
         (/\ (loc[p].op = "Login" \/ loc'[p].op = "Login") /\ pc'[p] # pc[p]
          /\ ~(pc'[p] = "done" /\ ret'[p].err = "nil"))
         => tokens' = tokens /\ users' = users]_vars

\* C5 witness: a Login failed to persist the new token after the eviction step
\* and the user's previous tokens are all in place.
C5_Witness ==
    \E p \in Procs :
        /\ Done(p, "Login") /\ ret[p].err = "StoreFailure"
        /\ {"tokens.DeleteByUserID", "tokens.Create"} \subseteq calls[p]
        /\ Cardinality(TokensOf(loc[p].user.ID)) >= MaxCount

\* the email of p's Login has no user, or the user's password is another one
BadCredentials(p) ==
    \/ {u \in users : u.Email = loc[p].email} = {}
    \/ \E u \in users : u.Email = loc[p].email /\ u.PasswordHash # <<"bcrypt", loc[p].password>>

\* C6: a Login with an unknown email and a Login with a wrong password return
\* the same Unauthorized result (unless the store or the transaction fails),
\* and neither reads, deletes or creates a refresh token.
C6_UnauthorizedAlike ==
    \A p \in Procs :
        (Done(p, "Login") /\ BadCredentials(p))
        => /\ ret[p].err \in {"Unauthorized"} \cup InfraFailures
           /\ ret[p].err \notin InfraFailures => ret[p] = [NoRet EXCEPT !.err = "Unauthorized"]
           /\ calls[p] \subseteq {"users.FindByEmail"}
           /\ ret[p].rfrToken = NilToken /\ ret[p].jwtToken = NilJwt

\* C6 witness: Unauthorized for a wrong password on an account that holds a token.
C6_Witness ==
    \E p \in Procs :
        /\ Done(p, "Login") /\ ret[p].err = "Unauthorized"
        /\ \E u \in users : u.Email = loc[p].email /\ TokensOf(u.ID) # {}

\* C7: a Refresh whose id is not in the store returns InvalidToken (StoreFailure
\* when the lookup itself fails) in that one step, and changes nothing.
C7_UnknownTokenNoMutation ==
    [][\A p \in Procs :
         (/\ pc[p] = "idle" /\ loc'[p].op = "Refresh"
          /\ loc'[p].rfrTokenID \notin TokenIDs)
         => /\ pc'[p] = "done"
            /\ ret'[p] \in {[NoRet EXCEPT !.err = "InvalidToken"],
                            [NoRet EXCEPT !.err = "StoreFailure"]}
            /\ calls'[p] = {"tokens.FindByID"}
            /\ tokens' = tokens /\ users' = users /\ nextUuid' = nextUuid]_vars

\* C7 witness: InvalidToken returned while the store holds tokens.
C7_Witness ==
    \E p \in Procs :
        /\ Done(p, "Refresh") /\ ret[p].err = "InvalidToken"
        /\ ~loc[p].replay
        /\ tokens # {}

\* C8: a Refresh of a stored, unexpired token with another fingerprint returns
\* InvalidFingerprint, the token is gone, nothing is created or signed.
C8_FingerprintMismatchConsumes ==
    \A p \in Procs :
        (/\ Redeemed(p)
         /\ loc[p].rfrToken.Fingerprint # loc[p].fingerprint
         /\ loc[p].now <= loc[p].rfrToken.CreatedAt + loc[p].rfrToken.ExpiresIn * TicksPerSecond)
        => /\ ret[p] = [NoRet EXCEPT !.err = "InvalidFingerprint"]
           /\ loc[p].rfrToken.ID \notin TokenIDs
           /\ calls[p] = UpToDelete
           /\ loc[p].newRfrToken = NilToken

\* C8 witness: InvalidFingerprint on an unexpired token.
C8_Witness ==
    \E p \in Procs :
        /\ Done(p, "Refresh") /\ ret[p].err = "InvalidFingerprint"
        /\ loc[p].now < loc[p].rfrToken.CreatedAt + loc[p].rfrToken.ExpiresIn * TicksPerSecond

\* the presented fingerprint is the one bound to the token p redeemed
FingerprintOk(p) == Redeemed(p) /\ loc[p].rfrToken.Fingerprint = loc[p].fingerprint

\* Refresh of p passed verification and went on to re-issue
Accepted(p) == "users.FindByID" \in calls[p]

C10_ReplayRejected ==
    \A p \in Procs :
        (Done(p, "Refresh") /\ loc[p].replay)
        => ret[p] \in {[NoRet EXCEPT !.err = "InvalidToken"],
                       [NoRet EXCEPT !.err = "StoreFailure"]}

\* C10 witness: a replay answered InvalidToken while the successor token of the
\* consumed one is stored.
C10_Witness ==
    \E p \in Procs :
        /\ Done(p, "Refresh") /\ loc[p].replay /\ ret[p].err = "InvalidToken"
        /\ \E t \in tokens : t.ID > loc[p].rfrTokenID /\ t.Fingerprint = loc[p].fingerprint

\* C11: a Login or a Refresh that returns success for time now returns a refresh
\* token whose ExpiresIn is the configured refresh TTL in seconds, and an access
\* token whose ExpiresAt is the Unix time of now + the configured access TTL.
C11_ConfiguredLifetimes ==
    \A p \in Procs :
        (pc[p] = "done" /\ loc[p].op \in {"Login", "Refresh"} /\ ret[p].err = "nil")
        => /\ ret[p].rfrToken.ExpiresIn = RefreshTTL
           /\ ret[p].rfrToken.CreatedAt = loc[p].now
           /\ ret[p].jwtToken.ExpiresAt = (loc[p].now + JwtTTL * TicksPerSecond) \div TicksPerSecond

\* C11 witness: a Refresh succeeded later than the Login that issued its token.
C11_Witness ==
    \E p \in Procs :
        /\ Done(p, "Refresh") /\ ret[p].err = "nil"
        /\ loc[p].now > loc[p].rfrToken.CreatedAt
        /\ ret[p].rfrToken.ExpiresIn = RefreshTTL

C13_AlgorithmChecked ==
    /\ jv.raw.Alg # Method => jv.key = ""
    /\ (jv.pc = "done" /\ jv.raw.Alg # Method)
         => jv.ret.err # "nil" /\ jv.ret.claims = NoClaims
    /\ jv.ret.claims # NoClaims => jv.raw.Alg = Method

\* C13 witness: an unexpired HS256 token whose HMAC was keyed with the public
\* key is rejected for its algorithm.
C13_Witness ==
    /\ jv.pc = "done" /\ jv.ret.err = "AlgMismatch"
    /\ jv.raw.Alg = "HS256" /\ jv.raw.SignedWith = "public"
    /\ jv.at < jv.raw.Claims.ExpiresAt

\* C14: a Logout whose id is not in the store returns success (StoreFailure when
\* the delete statement itself fails) and changes nothing; a Logout that returns
\* success removes exactly the row with its id, so a second Logout of the same id
\* finds it absent and leaves the result and the store as the first one did.
C14_LogoutIdempotent ==
    [][\A p \in Procs :
         (pc[p] = "idle" /\ loc'[p].op = "Logout")
         => /\ pc'[p] = "done"
            /\ ret'[p] \in {NoRet, [NoRet EXCEPT !.err = "StoreFailure"]}
            /\ users' = users
            /\ loc'[p].rfrTokenID \notin TokenIDs => tokens' = tokens
            /\ ret'[p].err = "nil"
                 => tokens' = {t \in tokens : t.ID # loc'[p].rfrTokenID}]_vars

\* C14 witness: a successful Logout of an id that a Refresh had consumed, with
\* other tokens in the store.
C14_Witness ==
    \E p \in Procs :
        /\ Done(p, "Logout") /\ ret[p].err = "nil"
        /\ loc[p].rfrTokenID \in consumed
        /\ loc[p].rfrTokenID \notin revoked
        /\ tokens # {}

\* C15: an id that a successful Logout removed from the store is never found
\* there again, and a later Refresh presenting it returns InvalidToken
\* (StoreFailure when the lookup itself fails) for every fingerprint and time.
C15_LogoutRevokes ==
    /\ \A t \in revoked : {r \in tokens : r.ID = t} = {}
    /\ \A p \in Procs :
          (Done(p, "Refresh") /\ loc[p].rfrTokenID \in revoked)
          => ret[p] \in {[NoRet EXCEPT !.err = "InvalidToken"],
                         [NoRet EXCEPT !.err = "StoreFailure"]}

\* C15 witness: InvalidToken for a logged-out id, presented after the owner
\* logged in again.
C15_Witness ==
    \E p \in Procs :
        /\ Done(p, "Refresh") /\ ret[p].err = "InvalidToken"
        /\ loc[p].rfrTokenID \in revoked
        /\ \E t \in tokens : t.ID > loc[p].rfrTokenID

\* C16: a Signup whose email already has a user returns EmailTaken (StoreFailure
\* when the lookup itself fails) after the lookup alone; no user is created and
\* the stores are unchanged.
C16_EmailTakenNoMutation ==
    [][\A p \in Procs :
         (/\ pc[p] = "idle" /\ loc'[p].op = "Signup"
          /\ \E u \in users : u.Email = loc'[p].email)
         => /\ pc'[p] = "done"
            /\ ret'[p] \in {[NoRet EXCEPT !.err = "EmailTaken"],
                            [NoRet EXCEPT !.err = "StoreFailure"]}
            /\ calls'[p] = {"users.FindByEmail"}
            /\ users' = users /\ tokens' = tokens /\ nextUuid' = nextUuid]_vars

\* C16 witness: EmailTaken for a Signup with another password than the one the
\* existing user signed up with.
C16_Witness ==
    \E p \in Procs :
        /\ Done(p, "Signup") /\ ret[p].err = "EmailTaken"
        /\ \E u \in users : /\ u.Email = loc[p].email
                             /\ u.PasswordHash # <<"bcrypt", loc[p].password>>

C18_ReadThrough ==
    (/\ cw.pc = "done" /\ cw.op = "FindByID"
     /\ cw.ret.err \notin {"CacheFailure", "StoreFailure"})
    => /\ cw.cached # NilCustomer
            => cw.calls = <<"cache.FindByID">> /\ cw.ret = [NoCustomerRet EXCEPT !.c = cw.cached]
       /\ (cw.cached = NilCustomer /\ cw.c # NilCustomer)
            => /\ cw.calls = <<"cache.FindByID", "rps.FindByID", "cache.Create">>
               /\ cw.c \in cache
               /\ cw.ret = [NoCustomerRet EXCEPT !.c = cw.c]
       /\ (cw.cached = NilCustomer /\ cw.c = NilCustomer)
            => /\ cw.calls = <<"cache.FindByID", "rps.FindByID">>
               /\ cw.ret = NoCustomerRet

\* C19: DeleteByID of the customer service deletes from the repository only
\* after the cache entry has been evicted, and when the eviction fails it
\* returns that error at once: the repository is not called and the customer
\* and the cache stay as they were.
C19_EvictBeforeDelete ==
    [][(cw.op = "DeleteByID" \/ cw'.op = "DeleteByID")
       => /\ customers' # customers
               => /\ cw.calls = <<"cache.DeleteByID">>
                  /\ {c \in cache : c.ID = cw.id} = {}
          /\ (cw.pc = "idle" /\ cw'.ret.err = "CacheFailure")
               => /\ cw'.pc = "done"
                  /\ cw'.calls = <<"cache.DeleteByID">>
                  /\ customers' = customers /\ cache' = cache]_vars

\* C19 witness: the eviction failed for a customer that is stored and cached,
\* and both are still in place.
C19_Witness ==
    /\ cw.pc = "done" /\ cw.op = "DeleteByID" /\ cw.ret.err = "CacheFailure"
    /\ \E c \in customers : c.ID = cw.id /\ c \in cache

\* C20: when two Logins of the same user have both returned success, each
\* having seen fewer than MaxCount tokens and inserted its own, the user does
\* not hold more than MaxCount stored tokens.
C20_ConcurrentLoginsKeepQuota ==
    \A p, q \in Procs :
        (/\ p # q
         /\ Done(p, "Login") /\ ret[p].err = "nil"
         /\ Done(q, "Login") /\ ret[q].err = "nil"
         /\ loc[p].user.ID = loc[q].user.ID
         /\ "tokens.DeleteByUserID" \notin calls[p] \cup calls[q])
        => Cardinality(TokensOf(loc[p].user.ID)) <= MaxCount

\* C21: a Login that returns an error returns no access token and no refresh
\* token with it.
C21_TokensOrError ==
    \A p \in Procs :
        (Done(p, "Login") /\ ret[p].err # "nil")
        => (ret[p].jwtToken = NilJwt /\ ret[p].rfrToken = NilToken)

\* Refresh of p deleted the presented token and then failed at the owner
\* lookup, the signing or the Create of the new token
Stranded(p) ==
    /\ Done(p, "Refresh")
    /\ "users.FindByID" \in calls[p]
    /\ ret[p].err # "nil"

\* the stored user that owns the token a Refresh of p presented
Owner(p) == {u \in users : u.ID = loc[p].rfrToken.UserID}

\* C22: a Refresh that fails after its delete returns the failure alone, the
\* presented token is not stored, no replacement token is stored and the owner
\* is still stored; a Login with the owner's email and password that looks the
\* user up after that failure is not answered Unauthorized.
C22_RefreshNotAtomic ==
    [][\A p \in Procs :
         /\ Stranded(p)' =>
               /\ ret'[p] = [NoRet EXCEPT !.err = ret'[p].err]
               /\ ret'[p].err \in {"StoreFailure", "SigningFailure"}
               /\ loc'[p].rfrToken.ID \notin {t.ID : t \in tokens'}
               /\ loc'[p].newRfrToken.ID \notin {t.ID : t \in tokens'}
               /\ \E u \in users' : u.ID = loc'[p].rfrToken.UserID
         /\ \A q \in Procs, u \in Owner(p) :
               (/\ Stranded(p)
                /\ pc[q] = "l_user" /\ pc'[q] # "l_user"
                /\ loc[q].email = u.Email
                /\ VerifyPassword(u.PasswordHash, loc[q].password))
               => /\ loc'[q].err \in {"nil", "StoreFailure", "SigningFailure"}
                  /\ loc'[q].err = "nil" => pc'[q] = "l_tokens"]_vars

\* C22 witness: a Refresh failed at the Create of the new token, and a Login
\* that created its token afterwards succeeded: the owner holds that token
\* alone.
C22_Witness ==
    \E p, q \in Procs :
        /\ Stranded(p) /\ "tokens.Create" \in calls[p]
        /\ Done(q, "Login") /\ ret[q].err = "nil"
        /\ ret[q].rfrToken.ID > loc[p].newRfrToken.ID
        /\ ret[q].rfrToken.UserID = loc[p].rfrToken.UserID
        /\ TokensOf(loc[p].rfrToken.UserID) = {ret[q].rfrToken}

\* C23: the delete step of a Refresh removes the presented token t alone, and
\* the step that ends a successful Refresh adds exactly one token: it is the
\* returned one, its id is not t's, its owner and fingerprint are t's, its
\* creation time is the supplied now, and the owner holds as many stored
\* tokens as before the call; the subject of the returned access token is
\* the owner's email.
C23_SuccessfulRefresh ==
    [][\A p \in Procs :
         /\ (pc[p] = "r_delete" /\ pc'[p] = "r_user")
            => /\ loc[p].rfrToken \in tokens
               /\ tokens' = tokens \ {loc[p].rfrToken}
         /\ (pc[p] = "r_user" /\ pc'[p] = "r_create") => tokens' = tokens
         /\ (pc[p] = "r_create" /\ pc'[p] = "done" /\ ret'[p].err = "nil")
            => LET t == loc[p].rfrToken
                   n == ret'[p].rfrToken
               IN /\ n \notin tokens /\ t \notin tokens
                  /\ tokens' = tokens \cup {n}
                  /\ n.ID # t.ID /\ n.ID \notin {r.ID : r \in tokens}
                  /\ n.UserID = t.UserID
                  /\ n.Fingerprint = t.Fingerprint
                  /\ n.CreatedAt = loc[p].now
                  /\ Cardinality({r \in tokens' : r.UserID = t.UserID})
                       = Cardinality({r \in tokens \cup {t} : r.UserID = t.UserID})
                  /\ \E u \in users : /\ u.ID = t.UserID
                                      /\ ret'[p].jwtToken.Subject = u.Email
                  /\ ret'[p].body = session(ret'[p].jwtToken, n)]_vars

\* C23 witness: a successful Refresh at a later time than the presented
\* token's creation, while the owner holds another token as well.
C23_Witness ==
    \E p \in Procs :
        /\ Done(p, "Refresh") /\ ret[p].err = "nil"
        /\ ret[p].rfrToken \in tokens
        /\ ret[p].rfrToken.CreatedAt > loc[p].rfrToken.CreatedAt
        /\ Cardinality(TokensOf(loc[p].rfrToken.UserID)) = 2

\* the worker p is at the step that takes the stored token t out:
\* the delete of a Refresh that presented t's id, a Logout that presents t's
\* id, or the commit of a successful Login of t's owner who held MaxCount or
\* more tokens
Removes(p, t) ==
    \/ /\ pc[p] = "r_delete" /\ loc[p].rfrTokenID = t.ID
    \/ /\ pc[p] = "idle" /\ loc'[p].op = "Logout" /\ loc'[p].rfrTokenID = t.ID
    \/ /\ pc[p] = "l_end" /\ ret'[p].err = "nil"
       /\ loc[p].user.ID = t.UserID
       /\ "tokens.DeleteByUserID" \in calls[p]
       /\ QuotaReached(Cardinality(TokensOf(t.UserID)))

\* C24: a stored token leaves the store only at the delete of a Refresh or
\* Logout presenting its id or at the commit of a successful Login of its owner
\* who held MaxCount or more tokens; a stored row is never altered, a new row
\* has a fresh id; and a successful Login of an owner holding fewer than
\* MaxCount tokens removes none and adds exactly the returned one.
C24_TokenLifecycle ==
    [][/\ \A t \in tokens \ tokens' :
             /\ t.ID \notin {r.ID : r \in tokens'}
             /\ \E p \in Procs : Removes(p, t)
       /\ \A n \in tokens' \ tokens : n.ID \notin TokenIDs
       /\ \A p \in Procs :
             (/\ pc[p] = "l_end" /\ pc'[p] = "done" /\ ret'[p].err = "nil"
              /\ ~QuotaReached(Cardinality(TokensOf(loc[p].user.ID))))
             => /\ ret'[p].rfrToken \notin tokens
                /\ ret'[p].rfrToken.UserID = loc[p].user.ID
                /\ tokens' = tokens \cup {ret'[p].rfrToken}]_vars

\* C24 witness: a successful Login that evicted its owner's tokens has
\* returned while the other user's token is still stored.
C24_Witness ==
    \E p \in Procs :
        /\ Done(p, "Login") /\ ret[p].err = "nil"
        /\ "tokens.DeleteByUserID" \in calls[p]
        /\ TokensOf(loc[p].user.ID) = {ret[p].rfrToken}
        /\ \E t \in tokens : t.UserID # loc[p].user.ID

\* C25: no two stored users have the same email.
C25_EmailUnique == \A u, v \in users : u.Email = v.Email => u = v

\* C25 witness: one Signup has created the user while another Signup of the
\* same email, which found no user, is about to create its own.
C25_Witness ==
    \E p, q \in Procs :
        /\ Done(p, "Signup") /\ ret[p].err = "nil" /\ ret[p].user \in users
        /\ pc[q] = "s_create"
        /\ loc[q].email = ret[p].user.Email
        /\ loc[q].user.ID # ret[p].user.ID

\* the position of p is inside txFunc or at the deferred function
InTransaction(p) == pc[p] \in {"l_user", "l_tokens", "l_evict", "l_create", "l_end"}

\* C26: txFunc starts only at the step that begins the transaction, the
\* transaction is open exactly while txFunc and the deferred function run, and
\* it ends at one step, the one from which Login returns: with a Commit when
\* txFunc returned no error (the writes are applied, or the Commit fails and
\* none is) and with a Rollback otherwise (no write is applied).
C26_TransactionEndsOnce ==
    [][\A p \in Procs :
         /\ (pc'[p] = "l_user" /\ pc[p] # "l_user")
            => (pc[p] = "idle" /\ ~tx[p].open /\ tx'[p] = [NoTx EXCEPT !.open = TRUE])
         /\ tx'[p].open <=> InTransaction(p)'
         /\ (Done(p, "Login")' /\ ~Done(p, "Login")) => ~tx'[p].open
         /\ (tx[p].open /\ ~tx'[p].open)
            => /\ pc[p] = "l_end" /\ pc'[p] = "done"
               /\ loc[p].err # "nil"
                    => /\ tokens' = tokens
                       /\ ret'[p].err \in {loc[p].err, "RollbackFailure"}
               /\ loc[p].err = "nil"
                    => \/ /\ ret'[p].err = "nil"
                          /\ tokens' = {r \in tokens : r.ID \notin tx[p].dels} \cup tx[p].ins
                       \/ /\ ret'[p].err = "CommitFailure"
                          /\ tokens' = tokens]_vars

\* C26 witness: a Login whose txFunc deleted the owner's tokens and then
\* failed at Create has returned: the transaction is closed and the tokens are
\* all stored.
C26_Witness ==
    \E p \in Procs :
        /\ Done(p, "Login") /\ ret[p].err = "StoreFailure"
        /\ {"tokens.DeleteByUserID", "tokens.Create"} \subseteq calls[p]
        /\ tx[p] = NoTx
        /\ Cardinality(TokensOf(loc[p].user.ID)) = MaxCount

\* C27: a Login whose txFunc returned the error e returns exactly e, and a
\* Login returns no error only when txFunc returned none.
C27_ReturnsFnResult ==
    \A p \in Procs :
        Done(p, "Login") =>
            /\ loc[p].err # "nil" => ret[p].err = loc[p].err
            /\ ret[p].err = "nil" => loc[p].err = "nil"

\* C28: once Signup has stored a user, a Login with the user's email and the
\* password of that Signup succeeds for every fingerprint, unless the store,
\* the signer or the transaction fails, and stores the returned refresh token
\* with the user as owner; a Login with the user's email and another password
\* returns Unauthorized, unless the store or the transaction fails, and no
\* token.
C28_SignupThenLogin ==
    \A p \in Procs, u \in users :
        (Done(p, "Login") /\ loc[p].email = u.Email) =>
            IF u.PasswordHash = GeneratePasswordHash(loc[p].password)
            THEN /\ ret[p].err \in {"nil", "SigningFailure"} \cup InfraFailures
                 /\ ret[p].err = "nil"
                      => /\ ret[p].rfrToken \in tokens
                         /\ ret[p].rfrToken.UserID = u.ID
                         /\ ret[p].rfrToken.Fingerprint = loc[p].fingerprint
                         /\ ret[p].jwtToken.Subject = u.Email
            ELSE /\ ret[p].err \in {"Unauthorized"} \cup InfraFailures
                 /\ ret[p].rfrToken = NilToken
                 /\ ret[p].rfrToken \notin tokens

\* C28 witness: a user signed up with one password has logged in with it from
\* the second device, and the returned token is stored.
C28_Witness ==
    \E p \in Procs, u \in users :
        /\ Done(p, "Login") /\ ret[p].err = "nil"
        /\ loc[p].email = u.Email
        /\ loc[p].password = "pw2" /\ loc[p].fingerprint = "fp2"
        /\ ret[p].rfrToken \in TokensOf(u.ID)

\* C29: the owner id of every stored refresh token, and of every token a
\* Refresh is about to look the owner up for, is the id of a stored user; no
\* Refresh dereferences a missing user.
C29_OwnerExists ==
    /\ \A t \in tokens : \E u \in users : u.ID = t.UserID
    /\ \A p \in Procs :
          /\ pc[p] = "r_user" => \E u \in users : u.ID = loc[p].rfrToken.UserID
          /\ ret[p].err # "Panic"

\* C29 witness: a Refresh has looked its owner up and returned the new pair
\* while another worker's Refresh of a stored token is at the lookup.
C29_Witness ==
    \E p, q \in Procs :
        /\ Done(p, "Refresh") /\ ret[p].err = "nil"
        /\ "users.FindByID" \in calls[p]
        /\ ret[p].rfrToken \in tokens
        /\ pc[q] = "r_user"
        /\ loc[q].rfrToken.ID # loc[p].rfrToken.ID

\* two Signups of one email have both returned after both called Create
\* having found no user
BothCreate(p, q) ==
    /\ p # q
    /\ Done(p, "Signup") /\ Done(q, "Signup")
    /\ loc[p].email = loc[q].email
    /\ "users.Create" \in calls[p] \cap calls[q]

\* C30: of two Signups of one email that both found no user and both called
\* Create, none returns EmailTaken and at most one returns the user; when one
\* does, that user is the stored one and the other Signup returns the error of
\* its Create with no user; unless a Create fails for another reason, exactly
\* one returns the user and the other the unique violation.
C30_SignupRace ==
    \A p, q \in Procs :
        BothCreate(p, q) =>
            /\ ret[p].err \in {"nil", "UniqueViolation", "StoreFailure"}
            /\ ret[p].err = "nil"
                 => /\ UserFindByEmail(loc[p].email) = {ret[p].user}
                    /\ ret[q].err \in {"UniqueViolation", "StoreFailure"}
                    /\ ret[q] = [NoRet EXCEPT !.err = ret[q].err]
            /\ "StoreFailure" \notin {ret[p].err, ret[q].err}
                 => {ret[p].err, ret[q].err} = {"nil", "UniqueViolation"}

\* C30 witness: one Signup returned the user and the other the unique
\* violation of its Create.
C30_Witness ==
    \E p, q \in Procs :
        /\ BothCreate(p, q)
        /\ ret[p].err = "nil" /\ ret[p].user \in users
        /\ ret[q].err = "UniqueViolation"
        /\ loc[q].user.ID # ret[p].user.ID

====
